---- MODULE Spec2Model ----
(***************************************************************************)
(* Model of the Stargazer Probe test gRPC server                           *)
(* (test-server-cpp/src/main.cc): process start-up (GetArg, main) and the   *)
(* two client-streaming handlers of SensorServiceImpl                      *)
(* (PublishCameraImage, PublishInertial), plus the bidirectional           *)
(* StreamData endpoint of the second service variant.                      *)
(*                                                                         *)
(* A handler invocation is a session.  One loop iteration of a handler     *)
(* (Read, ++received, the sampled log line) is one action: the body of the *)
(* loop contains no blocking call besides Read itself.                     *)
(***************************************************************************)
EXTENDS Integers, Sequences, FiniteSets, TLC

(***************************************************************************)
(* Bounds of the model                                                     *)
(***************************************************************************)
MaxReads == 101       \* successful Reads of one session under Spec / SpecEcho
MaxConcReads == 3     \* successful Reads of one session under SpecConc
NumSessions == 2      \* concurrent sessions under SpecConc
MaxImages == 2        \* image entries of one camera-image message
MaxConcImages == 1    \* the same, under SpecConc
MaxSamples == 1       \* samples of one inertial message
MaxArgs == 3          \* command-line arguments after argv[0]
LongWindow == 50      \* SpecLong resumes a session this close to INT32_MAX
LongAfter == 54       \* successful Reads beyond INT32_MAX under SpecLong

(***************************************************************************)
(* Program constants                                                       *)
(***************************************************************************)
Int32Max == 2147483647
Int32Min == -Int32Max - 1
CameraInterval == 30
InertialInterval == 100
PacketInterval == 30

DefaultHost == "0.0.0.0"
DefaultPort == "50051"

Sessions == 1..NumSessions
Kinds == {"camera", "inertial"}

\* what makes Read return false: the client closed its side, or the
\* transport failed
EndCauses == {"closed", "fault"}

(***************************************************************************)
(* Messages.  Only what the handlers inspect is kept: the number of        *)
(* entries and, per image entry, the presence of the optional intrinsics   *)
(* and of the distortion nested inside them.  name, timestamp and the byte *)
(* payloads are copied to the log unchanged and are left out.              *)
(***************************************************************************)
ImageEntries ==
  { [has_intrinsics |-> i, has_distortion |-> d] :
      <<i, d>> \in {<<FALSE, FALSE>>, <<TRUE, FALSE>>, <<TRUE, TRUE>>} }

SeqsUpTo(S, n) == UNION { [1..k -> S] : k \in 0..n }

CameraImagesUpTo(n) == { [values |-> v] : v \in SeqsUpTo(ImageEntries, n) }
CameraImageMessages == CameraImagesUpTo(MaxImages)
InertialMessages == { [values |-> v] : v \in SeqsUpTo({0}, MaxSamples) }

MessagesOf(k) == IF k = "camera" THEN CameraImageMessages ELSE InertialMessages

NoMsg == [absent |-> TRUE]
NoLine == [tag |-> "none"]

(***************************************************************************)
(* Command-line vectors: argv[0] followed by up to MaxArgs arguments.      *)
(***************************************************************************)
ArgTokens == {"--host", "--port", "v"}
ArgVectors == { <<"server">> \o a : a \in SeqsUpTo(ArgTokens, MaxArgs) }

VARIABLES
  argv,        \* the command line, argv[0] first (TLA+ index = C index + 1)
  mainpc,      \* position of main: "start", "started" (server built, line 126
               \* not yet run), "serving" (in Wait), "failed", "returned"
  address,     \* <<host, port>>, the address string host + ":" + port
  listenLog,   \* addresses of the "listening on" lines written to stdout
  errLog,      \* addresses of the "Failed to start server" lines on stderr
  exitStatus,  \* -1 while the process runs, else the value main returned
  pc,          \* per session: "idle", "read", "write", "done"
  kind,        \* per session: the endpoint it was dispatched to
  received,    \* per session: the handler's local int32_t received
  reads,       \* per session: number of successful Reads (history)
  readsOver,   \* per session: successful Reads beyond Int32Max (history)
  fails,       \* per session: number of failed Reads or Writes (history)
  nlines,      \* per session: number of sampled log lines written
  lastLine,    \* per session: the line the most recent Read wrote, or NoLine
  lineMsg,     \* per session: the message lastLine was written for, or NoMsg
  lastOut,     \* per session: the most recent console line of the session
  nsummary,    \* per session: number of "stream ended" lines written
  summary,     \* per session: total_received of the "stream ended" line
  status,      \* per session: "none" or the returned grpc::Status
  responses,   \* per session: StreamData responses written, in order
  cause        \* per session: why the stream ended ("none" while it runs)

mainVars == <<argv, mainpc, address, listenLog, errLog, exitStatus>>
sessVars == <<pc, kind, received, reads, readsOver, fails, nlines, lastLine,
              lineMsg, lastOut, nsummary, summary, status, responses,
              cause>>
vars == <<mainVars, sessVars>>

(***************************************************************************)
(* int32_t arithmetic                                                      *)
(***************************************************************************)
\* Values a build leaves in an int32_t after ++ at INT32_MAX (signed
\* overflow is undefined): every build stores the two's-complement wrap.
OverflowOutcomes == {Int32Min}

Inc32_twice(x) == IF x < Int32Max - 1 THEN {x + 2} ELSE OverflowOutcomes

\* ++received
Inc32(x) == IF x < Int32Max THEN {x + 1} ELSE OverflowOutcomes

\* a % b of C++ for b > 0: the remainder has the sign of a
CRem(a, b) == LET m == a % b IN IF a < 0 /\ m # 0 THEN m - b ELSE m

Interval_swapped(k) == IF k = "camera" THEN InertialInterval ELSE CameraInterval

\* the sampling interval of an endpoint
Interval(k) == IF k = "camera" THEN CameraInterval ELSE InertialInterval

\* the remainder modulo b of the 32 bits of a read as an unsigned number
URem(a, b) == IF a >= 0 THEN a % b ELSE ((a % b) + 2 * ((Int32Max % b) + 1)) % b

Sampled_everyKth(k, r) == { CRem(r, Interval(k)) = 0 }

\* the outcomes of (received % 30) == 1, (received % 100) == 1.  On a
\* counter that has overflowed (r < 0) the builds differ: unoptimised ones
\* take the truncating remainder (never 1), optimised ones, which assume
\* received >= 1, the remainder of the unsigned value.
Sampled(k, r) ==
  IF r >= 0
    THEN { CRem(r, Interval(k)) = 1 }
    ELSE { CRem(r, Interval(k)) = 1, URem(r, Interval(k)) = 1 }

(***************************************************************************)
(* GetArg and main                                                         *)
(***************************************************************************)
\* argv[i] of the C++ code (0-based)
Arg(av, i) == av[i + 1]

RECURSIVE GetArgLast(_, _, _, _, _)
GetArgLast(argc, av, key, found, i) ==
  IF i < argc - 1
    THEN GetArgLast(argc, av, key,
                    IF Arg(av, i) = key THEN Arg(av, i + 1) ELSE found, i + 1)
    ELSE found

\* the loop of GetArg, entered with loop variable i
RECURSIVE GetArgFrom(_, _, _, _, _)
GetArgFrom(argc, av, key, fallback, i) ==
  IF i < argc - 1
    THEN IF Arg(av, i) = key
           THEN Arg(av, i + 1)
           ELSE GetArgFrom(argc, av, key, fallback, i + 1)
    ELSE fallback

GetArg_lastMatch(argc, av, key, fallback) == GetArgLast(argc, av, key, fallback, 1)

GetArg(argc, av, key, fallback) == GetArgFrom(argc, av, key, fallback, 1)

\* host + ":" + port
Address(av) == << GetArg(Len(av), av, "--host", DefaultHost),
                  GetArg(Len(av), av, "--port", DefaultPort) >>

\* main with BuildAndStart returning a server (ok) or null, logging first
MainStartup_logFirst(ok) ==
  /\ mainpc = "start"
  /\ address' = Address(argv)
  /\ listenLog' = Append(listenLog, address')
  /\ IF ok
       THEN /\ errLog' = errLog
            /\ mainpc' = "started"
            /\ exitStatus' = exitStatus
       ELSE /\ errLog' = Append(errLog, address')
            /\ mainpc' = "failed"
            /\ exitStatus' = 1
  /\ UNCHANGED <<argv, sessVars>>

\* main up to the test of the server: BuildAndStart returns a started
\* server (ok), which dispatches calls from then on, or null, and then main
\* writes the failure line and returns 1
MainStartup(ok) ==
  /\ mainpc = "start"
  /\ address' = Address(argv)
  /\ IF ok
       THEN /\ listenLog' = listenLog
            /\ errLog' = errLog
            /\ mainpc' = "started"
            /\ exitStatus' = exitStatus
       ELSE /\ errLog' = Append(errLog, address')
            /\ listenLog' = listenLog
            /\ mainpc' = "failed"
            /\ exitStatus' = 1
  /\ UNCHANGED <<argv, sessVars>>

\* main writes the "listening on" line and enters server->Wait()
LogListening ==
  /\ mainpc = "started"
  /\ listenLog' = Append(listenLog, address)
  /\ mainpc' = "serving"
  /\ UNCHANGED <<argv, address, errLog, exitStatus, sessVars>>

\* the server accepts and dispatches calls
Accepting == mainpc \in {"started", "serving"}

\* server->Wait() returns (the server was shut down and no call is in
\* progress); main returns 0
WaitReturns ==
  /\ mainpc = "serving"
  /\ \A s \in Sessions : pc[s] \in {"idle", "done"}
  /\ mainpc' = "returned"
  /\ exitStatus' = 0
  /\ UNCHANGED <<argv, address, listenLog, errLog, sessVars>>

(***************************************************************************)
(* SensorServiceImpl: PublishCameraImage and PublishInertial               *)
(***************************************************************************)
\* the sampled line of PublishCameraImage, intrinsics taken from any entry
CameraLine_anyEntry(r, m) ==
  LET n == Len(m.values) IN
  [ tag |-> "camera", received |-> r, images |-> n,
    image_bytes |-> n > 0,
    intrinsics |-> \E i \in 1..n : m.values[i].has_intrinsics,
    distortion |-> \E i \in 1..n : m.values[i].has_distortion,
    terminated |-> TRUE ]

\* the sampled line of PublishCameraImage for message m read as number r
CameraLine(r, m) ==
  LET num_images == Len(m.values) IN
  [ tag |-> "camera", received |-> r, images |-> num_images,
    image_bytes |-> num_images > 0,
    intrinsics |-> IF num_images > 0
                     THEN m.values[1].has_intrinsics
                     ELSE FALSE,
    distortion |-> IF num_images > 0
                     THEN IF m.values[1].has_intrinsics
                            THEN m.values[1].has_distortion
                            ELSE FALSE
                     ELSE FALSE,
    terminated |-> TRUE ]

\* the sampled line of PublishInertial
InertialLine(r, m) ==
  [ tag |-> "inertial", received |-> r, samples |-> Len(m.values),
    terminated |-> TRUE ]

Line(k, r, m) == IF k = "camera" THEN CameraLine(r, m) ELSE InertialLine(r, m)

\* one more successful Read in the history of session s
CountRead(s) ==
  IF reads[s] < Int32Max
    THEN /\ reads' = [reads EXCEPT ![s] = @ + 1]
         /\ readsOver' = readsOver
    ELSE /\ readsOver' = [readsOver EXCEPT ![s] = @ + 1]
         /\ reads' = reads

\* the transport dispatches a call of endpoint k to a handler: the
\* "client connected" line and the handler's locals
Connect(s, k) ==
  /\ Accepting
  /\ pc[s] = "idle"
  /\ kind' = [kind EXCEPT ![s] = k]
  /\ received' = [received EXCEPT ![s] = 0]
  /\ lastOut' = [lastOut EXCEPT ![s] = "connected"]
  /\ pc' = [pc EXCEPT ![s] = "read"]
  /\ UNCHANGED <<mainVars, reads, readsOver, fails, nlines, lastLine, lineMsg,
                 nsummary, summary, status, responses, cause>>

\* a loop iteration in which the counter is one object shared by all handlers
ReadBody_shared(s, m) ==
  /\ pc[s] = "read"
  /\ kind[s] \in Kinds
  /\ m \in MessagesOf(kind[s])
  /\ \E r \in Inc32(received[s]) :
       /\ received' = [t \in Sessions |-> IF pc[t] = "read" THEN r ELSE received[t]]
       /\ \E hit \in Sampled(kind[s], r) : IF hit
            THEN /\ nlines' = [nlines EXCEPT ![s] = @ + 1]
                 /\ lastLine' = [lastLine EXCEPT ![s] = Line(kind[s], r, m)]
                 /\ lineMsg' = [lineMsg EXCEPT ![s] = m]
                 /\ lastOut' = [lastOut EXCEPT ![s] = "sampled"]
            ELSE /\ nlines' = nlines
                 /\ lastLine' = [lastLine EXCEPT ![s] = NoLine]
                 /\ lineMsg' = [lineMsg EXCEPT ![s] = NoMsg]
                 /\ lastOut' = lastOut
  /\ CountRead(s)
  /\ UNCHANGED <<mainVars, pc, kind, fails, nsummary, summary, status, responses, cause>>

\* one iteration of while (reader->Read(&msg)) { ... } with Read returning
\* true and delivering m
ReadBody(s, m) ==
  /\ pc[s] = "read"
  /\ kind[s] \in Kinds
  /\ m \in MessagesOf(kind[s])
  /\ \E r \in Inc32(received[s]) :
       /\ received' = [received EXCEPT ![s] = r]
       /\ \E hit \in Sampled(kind[s], r) : IF hit
            THEN /\ nlines' = [nlines EXCEPT ![s] = @ + 1]
                 /\ lastLine' = [lastLine EXCEPT ![s] = Line(kind[s], r, m)]
                 /\ lineMsg' = [lineMsg EXCEPT ![s] = m]
                 /\ lastOut' = [lastOut EXCEPT ![s] = "sampled"]
            ELSE /\ nlines' = nlines
                 /\ lastLine' = [lastLine EXCEPT ![s] = NoLine]
                 /\ lineMsg' = [lineMsg EXCEPT ![s] = NoMsg]
                 /\ lastOut' = lastOut
  /\ CountRead(s)
  /\ UNCHANGED <<mainVars, pc, kind, fails, nsummary, summary, status, responses, cause>>

\* a failed Read that skips the summary of an empty stream
ReadFail_quietWhenEmpty(s, c) ==
  /\ pc[s] = "read"
  /\ kind[s] \in Kinds
  /\ fails' = [fails EXCEPT ![s] = @ + 1]
  /\ IF received[s] = 0
       THEN UNCHANGED <<nsummary, summary, lastOut>>
       ELSE /\ nsummary' = [nsummary EXCEPT ![s] = @ + 1]
            /\ summary' = [summary EXCEPT ![s] = received[s]]
            /\ lastOut' = [lastOut EXCEPT ![s] = "summary"]
  /\ lastLine' = [lastLine EXCEPT ![s] = NoLine]
  /\ lineMsg' = [lineMsg EXCEPT ![s] = NoMsg]
  /\ status' = [status EXCEPT ![s] = "OK"]
  /\ cause' = [cause EXCEPT ![s] = c]
  /\ pc' = [pc EXCEPT ![s] = "done"]
  /\ UNCHANGED <<mainVars, kind, received, reads, readsOver, nlines, responses>>

\* Read returns false (client closed, or transport fault): the loop ends,
\* the "stream ended" line is written and the handler returns Status::OK
ReadFail(s, c) ==
  /\ pc[s] = "read"
  /\ kind[s] \in Kinds
  /\ fails' = [fails EXCEPT ![s] = @ + 1]
  /\ nsummary' = [nsummary EXCEPT ![s] = @ + 1]
  /\ summary' = [summary EXCEPT ![s] = received[s]]
  /\ lastOut' = [lastOut EXCEPT ![s] = "summary"]
  /\ lastLine' = [lastLine EXCEPT ![s] = NoLine]
  /\ lineMsg' = [lineMsg EXCEPT ![s] = NoMsg]
  /\ status' = [status EXCEPT ![s] = "OK"]
  /\ cause' = [cause EXCEPT ![s] = c]
  /\ pc' = [pc EXCEPT ![s] = "done"]
  /\ UNCHANGED <<mainVars, kind, received, reads, readsOver, nlines, responses>>

\* a successful Read of a session whose stream is at most MaxReads long
ReadOk(s, m) == reads[s] < MaxReads /\ ReadBody(s, m)

(***************************************************************************)
(* Spec: the process from its start, serving one call at a time            *)
(***************************************************************************)
SessionInit ==
  /\ pc = [s \in Sessions |-> "idle"]
  /\ kind = [s \in Sessions |-> "none"]
  /\ received = [s \in Sessions |-> 0]
  /\ reads = [s \in Sessions |-> 0]
  /\ readsOver = [s \in Sessions |-> 0]
  /\ fails = [s \in Sessions |-> 0]
  /\ nlines = [s \in Sessions |-> 0]
  /\ lastLine = [s \in Sessions |-> NoLine]
  /\ lineMsg = [s \in Sessions |-> NoMsg]
  /\ lastOut = [s \in Sessions |-> "none"]
  /\ nsummary = [s \in Sessions |-> 0]
  /\ summary = [s \in Sessions |-> 0]
  /\ status = [s \in Sessions |-> "none"]
  /\ responses = [s \in Sessions |-> <<>>]
  /\ cause = [s \in Sessions |-> "none"]

MainInit(avs) ==
  /\ argv \in avs
  /\ mainpc = "start"
  /\ address = <<"", "">>
  /\ listenLog = <<>>
  /\ errLog = <<>>
  /\ exitStatus = -1

Init == MainInit(ArgVectors) /\ SessionInit

Next ==
  \/ \E ok \in BOOLEAN : MainStartup(ok)
  \/ LogListening
  \/ WaitReturns
  \/ \E k \in Kinds : Connect(1, k)
  \/ \E m \in MessagesOf(kind[1]) : ReadOk(1, m)
  \/ \E c \in EndCauses : ReadFail(1, c)

Spec == Init /\ [][Next]_vars

(***************************************************************************)
(* Properties of the client-streaming handlers                             *)
(***************************************************************************)
Running(s) == pc[s] \in {"read", "done"} /\ kind[s] \in Kinds

\* C1: in every session of PublishCameraImage and PublishInertial the
\* counter received equals the number of successful Reads so far (it starts
\* at 0, grows by one per successful Read and changes at no other time),
\* and the "stream ended" line reports that number.
C1_CountExact ==
  \A s \in Sessions :
    Running(s) =>
      /\ received[s] = reads[s]
      /\ readsOver[s] = 0
      /\ pc[s] = "done" => (nsummary[s] = 1 /\ summary[s] = reads[s])

C1_Witness ==
  \E s \in Sessions :
    /\ Running(s) /\ pc[s] = "done"
    /\ reads[s] >= 31 /\ nlines[s] >= 2
    /\ summary[s] = reads[s]

\* C2: the most recent successful Read wrote a sampled line iff the number
\* of the message it read is 1 modulo K, K = 30 for PublishCameraImage and
\* K = 100 for PublishInertial; the line carries that number; the first
\* message of a session is always logged.
C2_SampledIff ==
  \A s \in Sessions :
    (Running(s) /\ pc[s] = "read" /\ reads[s] >= 1) =>
      LET K == IF kind[s] = "camera" THEN 30 ELSE 100 IN
      /\ (lastLine[s] # NoLine) <=> (reads[s] % K = 1)
      /\ lastLine[s] # NoLine => lastLine[s].received = reads[s]
      /\ reads[s] = 1 => lastLine[s] # NoLine

C2_Witness ==
  \E s \in Sessions :
    /\ pc[s] = "read" /\ kind[s] = "inertial"
    /\ reads[s] = 101
    /\ lastLine[s] # NoLine /\ lastLine[s].received = 101

\* C3: a PublishCameraImage session that has read n messages has written
\* ceil(n/30) sampled lines, for the messages 1, 31, 61, ... <= n, and when
\* the stream ends one summary line with total_received = n; n = 31 gives 2
\* sampled lines and total_received=31.
C3_CameraLines ==
  \A s \in Sessions :
    (Running(s) /\ kind[s] = "camera") =>
      /\ nlines[s] = (reads[s] + 29) \div 30
      /\ lastLine[s] # NoLine =>
           lastLine[s].received \in { n \in 1..reads[s] : n % 30 = 1 }
      /\ pc[s] = "done" => (nsummary[s] = 1 /\ summary[s] = reads[s])
      /\ (pc[s] = "done" /\ reads[s] = 31) => (nlines[s] = 2 /\ summary[s] = 31)

C3_Witness ==
  \E s \in Sessions :
    /\ pc[s] = "done" /\ kind[s] = "camera"
    /\ reads[s] = 31 /\ nlines[s] = 2
    /\ nsummary[s] = 1 /\ summary[s] = 31

\* C4: a session ends on its first failed Read, whatever the cause and
\* however many messages were read: exactly one summary line, written after
\* every sampled line, no further Read, status OK; before that no summary
\* and no status.  An empty stream gives no sampled line and
\* total_received=0.
C4_EndOfStream ==
  \A s \in Sessions :
    Running(s) =>
      /\ pc[s] = "read" =>
           /\ fails[s] = 0 /\ nsummary[s] = 0
           /\ status[s] = "none" /\ cause[s] = "none"
      /\ pc[s] = "done" =>
           /\ fails[s] = 1 /\ nsummary[s] = 1
           /\ cause[s] \in EndCauses
           /\ summary[s] = received[s]
           /\ lastOut[s] = "summary"
           /\ status[s] = "OK"
           /\ ~ ENABLED (\E c \in EndCauses : ReadFail(s, c))
           /\ ~ ENABLED (\E m \in MessagesOf(kind[s]) : ReadOk(s, m))
           /\ reads[s] = 0 => (nlines[s] = 0 /\ summary[s] = 0)

C4_Witness ==
  \E s \in Sessions :
    /\ pc[s] = "done" /\ kind[s] \in Kinds
    /\ cause[s] = "fault"
    /\ reads[s] = 0 /\ nlines[s] = 0
    /\ nsummary[s] = 1 /\ summary[s] = 0 /\ status[s] = "OK"

(***************************************************************************)
(* Properties of GetArg and main                                           *)
(***************************************************************************)
\* C-indices i with 1 <= i <= argc-2 at which argv[i] is key
Matches(av, key) == { i \in 1..(Len(av) - 2) : av[i + 1] = key }

Expected(av, key, fallback) ==
  IF Matches(av, key) = {}
    THEN fallback
    ELSE LET i == CHOOSE j \in Matches(av, key) :
                    \A l \in Matches(av, key) : j <= l
         IN av[i + 2]

\* C6: GetArg returns the argument after the first occurrence of the key
\* among argv[1..argc-2], and the fallback when there is none; a key that
\* is only the last argument is not matched, so host and port fall back to
\* 0.0.0.0 and 50051.
C6_GetArgFirstMatch ==
  mainpc # "start" =>
    /\ address[1] = Expected(argv, "--host", "0.0.0.0")
    /\ address[2] = Expected(argv, "--port", "50051")
    /\ (argv[Len(argv)] = "--host" /\ Matches(argv, "--host") = {})
         => address[1] = "0.0.0.0"
    /\ (\A i \in 1..Len(argv) : argv[i] # "--port") => address[2] = "50051"

C6_Witness ==
  /\ mainpc # "start"
  /\ argv = <<"server", "--host", "--host", "v">>
  /\ address = <<"--host", "50051">>

\* C8: when listener creation fails the process writes one failure line to
\* the error stream, never the "listening on" line, serves no call and
\* exits with status 1; when it succeeds main logs the bound address once
\* and then blocks in Wait, and exit status 0 is reached only by Wait
\* returning.  (Calls are served only by a server that was started.)
C8_Startup ==
  /\ mainpc = "start" =>
       /\ listenLog = <<>> /\ errLog = <<>> /\ exitStatus = -1
       /\ \A s \in Sessions : pc[s] = "idle"
  /\ mainpc = "failed" =>
       /\ errLog = <<address>> /\ listenLog = <<>>
       /\ exitStatus = 1
       /\ \A s \in Sessions : pc[s] = "idle"
  /\ mainpc = "started" =>
       /\ listenLog = <<>> /\ errLog = <<>>
       /\ exitStatus = -1
  /\ mainpc = "serving" =>
       /\ listenLog = <<address>> /\ errLog = <<>>
       /\ exitStatus = -1
  /\ mainpc = "returned" =>
       /\ listenLog = <<address>> /\ errLog = <<>>
       /\ exitStatus = 0
  /\ exitStatus = 0 <=> mainpc = "returned"
  /\ exitStatus = 1 <=> mainpc = "failed"
  /\ (\E s \in Sessions : pc[s] # "idle") => mainpc \in {"started", "serving", "returned"}
  /\ mainpc # "start" => address = Address(argv)

C8_Witness ==
  /\ mainpc = "failed"
  /\ errLog = <<address>> /\ listenLog = <<>>
  /\ exitStatus = 1
  /\ argv = <<"server", "--port", "v">>

(***************************************************************************)
(* The sampled camera-image line                                           *)
(***************************************************************************)
MarksIntrinsics(m) == \E i \in 1..Len(m.values) : m.values[i].has_intrinsics
MarksDistortion(m) == \E i \in 1..Len(m.values) : m.values[i].has_distortion

\* C7 as stated: the sampled camera-image line has the intrinsics block iff
\* the message marks intrinsics present, and the distortion block iff the
\* message marks distortion present, for any number of image entries.
C7_AsStated ==
  \A s \in Sessions :
    (kind[s] = "camera" /\ lastLine[s] # NoLine) =>
      /\ lastLine[s].intrinsics <=> MarksIntrinsics(lineMsg[s])
      /\ lastLine[s].distortion <=> MarksDistortion(lineMsg[s])
      /\ lastLine[s].terminated

\* C7 amended: the line has the intrinsics block iff the message has at
\* least one image entry and its first entry marks intrinsics present, and
\* the distortion block iff moreover those intrinsics mark distortion
\* present; later entries are not looked at; the line is always terminated.
C7_FirstEntry ==
  \A s \in Sessions :
    (kind[s] = "camera" /\ lastLine[s] # NoLine) =>
      LET v == lineMsg[s].values IN
      /\ lastLine[s].images = Len(v)
      /\ lastLine[s].image_bytes <=> Len(v) > 0
      /\ lastLine[s].intrinsics <=> (Len(v) > 0 /\ v[1].has_intrinsics)
      /\ lastLine[s].distortion <=>
           (Len(v) > 0 /\ v[1].has_intrinsics /\ v[1].has_distortion)
      /\ lastLine[s].terminated

C7_Witness ==
  \E s \in Sessions :
    /\ kind[s] = "camera" /\ lastLine[s] # NoLine
    /\ Len(lineMsg[s].values) = 2
    /\ ~ lineMsg[s].values[1].has_intrinsics
    /\ lineMsg[s].values[2].has_distortion
    /\ ~ lastLine[s].intrinsics /\ ~ lastLine[s].distortion

(***************************************************************************)
(* SpecConc: several calls served concurrently by the one service object   *)
(***************************************************************************)
\* a successful Read of a session whose stream is at most MaxConcReads long
ConcReadOk(s, m) == reads[s] < MaxConcReads /\ ReadBody(s, m)

\* the messages the clients of SpecConc send
ConcMessagesOf(k) ==
  IF k = "camera" THEN CameraImagesUpTo(MaxConcImages) ELSE InertialMessages

InitConc == MainInit({<<"server">>}) /\ SessionInit

NextConc ==
  \/ \E ok \in BOOLEAN : MainStartup(ok)
  \/ LogListening
  \/ WaitReturns
  \/ \E s \in Sessions, k \in Kinds : Connect(s, k)
  \/ \E s \in Sessions : \E m \in ConcMessagesOf(kind[s]) : ConcReadOk(s, m)
  \/ \E s \in Sessions, c \in EndCauses : ReadFail(s, c)

SpecConc == InitConc /\ [][NextConc]_vars

\* everything a handler invocation owns
Local(s) == <<pc[s], kind[s], received[s], reads[s], readsOver[s], fails[s],
              nlines[s], lastLine[s], lineMsg[s], lastOut[s], nsummary[s],
              summary[s], status[s], responses[s], cause[s]>>

\* C9: with several sessions running concurrently, every step changes the
\* state of at most one session, and a session's counter, sampled lines
\* and total change only with that session's own successful Reads.
C9_Isolation ==
  [][ \A s \in Sessions :
        /\ Local(s)' # Local(s) => \A t \in Sessions \ {s} : Local(t)' = Local(t)
        /\ (pc[s] = "read" /\ reads'[s] = reads[s]) =>
             (received'[s] = received[s] /\ nlines'[s] = nlines[s])
        /\ (pc[s] = "read" /\ reads'[s] # reads[s]) =>
             /\ reads'[s] = reads[s] + 1
             /\ received'[s] = received[s] + 1
             /\ nlines'[s] = nlines[s] + (IF reads'[s] % Interval(kind[s]) = 1 THEN 1 ELSE 0)
        /\ pc'[s] = "done" => summary'[s] = reads[s] ]_vars

C9_Witness ==
  \E s, t \in Sessions :
    /\ s # t
    /\ pc[s] = "read" /\ kind[s] = "camera" /\ reads[s] = 3 /\ received[s] = 3
    /\ pc[t] = "read" /\ kind[t] = "camera" /\ reads[t] = 1 /\ received[t] = 1
    /\ lastLine[t] # NoLine /\ lastLine[s] = NoLine

(***************************************************************************)
(* SpecLong: a session late in a very long stream.  The initial states are *)
(* the states a session is in after c successful Reads, for the c within   *)
(* LongWindow of INT32_MAX.                                                *)
(***************************************************************************)
\* a successful Read at most LongAfter messages past INT32_MAX
LongReadOk(s, m) == readsOver[s] < LongAfter /\ ReadBody(s, m)

InitLong ==
  /\ argv = <<"server">>
  /\ mainpc = "serving"
  /\ address = Address(argv)
  /\ listenLog = <<address>>
  /\ errLog = <<>>
  /\ exitStatus = -1
  /\ \E k \in Kinds, c \in { Int32Max - d : d \in 0..LongWindow } :
       \E m \in MessagesOf(k) :
         /\ pc = [s \in Sessions |-> IF s = 1 THEN "read" ELSE "idle"]
         /\ kind = [s \in Sessions |-> IF s = 1 THEN k ELSE "none"]
         /\ received = [s \in Sessions |-> IF s = 1 THEN c ELSE 0]
         /\ reads = [s \in Sessions |-> IF s = 1 THEN c ELSE 0]
         /\ nlines = [s \in Sessions |->
                        IF s = 1 THEN (c - 1) \div Interval(k) + 1 ELSE 0]
         /\ lastLine = [s \in Sessions |->
                          IF s = 1 /\ TRUE \in Sampled(k, c) THEN Line(k, c, m) ELSE NoLine]
         /\ lineMsg = [s \in Sessions |->
                         IF s = 1 /\ TRUE \in Sampled(k, c) THEN m ELSE NoMsg]
         /\ lastOut = [s \in Sessions |-> IF s = 1 THEN "sampled" ELSE "none"]
  /\ readsOver = [s \in Sessions |-> 0]
  /\ fails = [s \in Sessions |-> 0]
  /\ nsummary = [s \in Sessions |-> 0]
  /\ summary = [s \in Sessions |-> 0]
  /\ status = [s \in Sessions |-> "none"]
  /\ responses = [s \in Sessions |-> <<>>]
  /\ cause = [s \in Sessions |-> "none"]

NextLong ==
  \/ \E m \in MessagesOf(kind[1]) : LongReadOk(1, m)
  \/ \E c \in EndCauses : ReadFail(1, c)

SpecLong == InitLong /\ [][NextLong]_vars

\* the number of successful Reads of session s, modulo K
ReadsMod(s, K) == ((reads[s] % K) + (readsOver[s] % K)) % K

\* C10: the 32-bit counter never wraps or goes negative: after any number
\* of successful Reads it holds the exact number of messages read, and the
\* sampling test keeps selecting every Kth message.
C10_NoWrap ==
  \A s \in Sessions :
    Running(s) =>
      /\ received[s] >= 0
      /\ readsOver[s] = 0 /\ received[s] = reads[s]
      /\ (pc[s] = "read" /\ reads[s] >= 1) =>
           ((lastLine[s] # NoLine) <=> (ReadsMod(s, Interval(kind[s])) = 1))
      /\ pc[s] = "done" => summary[s] = reads[s]

(***************************************************************************)
(* SpecEcho: the bidirectional StreamData endpoint of the second service   *)
(* variant.  A packet is kept as the presence of its optional camera       *)
(* sub-record.                                                             *)
(***************************************************************************)
Packets == { [has_camera |-> c] : c \in BOOLEAN }

\* the sampled line of StreamData
PacketLine(r, p) ==
  [ tag |-> "packet", received |-> r, camera |-> p.has_camera,
    terminated |-> TRUE ]

\* the response written for the packet counted as number r
Response(r) == [success |-> TRUE, received_packets |-> r, message |-> "ok"]

\* the transport dispatches a StreamData call to a handler
EchoConnect(s) ==
  /\ mainpc = "serving"
  /\ pc[s] = "idle"
  /\ kind' = [kind EXCEPT ![s] = "stream"]
  /\ received' = [received EXCEPT ![s] = 0]
  /\ lastOut' = [lastOut EXCEPT ![s] = "connected"]
  /\ pc' = [pc EXCEPT ![s] = "read"]
  /\ UNCHANGED <<mainVars, reads, readsOver, fails, nlines, lastLine, lineMsg,
                 nsummary, summary, status, responses, cause>>

\* a packet is read and counted, and sampled for the log; the response is
\* still to be written
EchoReadOk(s, p) ==
  /\ pc[s] = "read"
  /\ kind[s] = "stream"
  /\ reads[s] < MaxReads
  /\ \E r \in Inc32(received[s]) :
       /\ received' = [received EXCEPT ![s] = r]
       /\ IF CRem(r, PacketInterval) = 1
            THEN /\ nlines' = [nlines EXCEPT ![s] = @ + 1]
                 /\ lastLine' = [lastLine EXCEPT ![s] = PacketLine(r, p)]
                 /\ lineMsg' = [lineMsg EXCEPT ![s] = p]
                 /\ lastOut' = [lastOut EXCEPT ![s] = "sampled"]
            ELSE /\ nlines' = nlines
                 /\ lastLine' = [lastLine EXCEPT ![s] = NoLine]
                 /\ lineMsg' = [lineMsg EXCEPT ![s] = NoMsg]
                 /\ lastOut' = lastOut
  /\ CountRead(s)
  /\ pc' = [pc EXCEPT ![s] = "write"]
  /\ UNCHANGED <<mainVars, kind, fails, nsummary, summary, status, responses,
                 cause>>

\* the end of the StreamData loop: final count, success status
EchoEnd(s, c) ==
  /\ fails' = [fails EXCEPT ![s] = @ + 1]
  /\ nsummary' = [nsummary EXCEPT ![s] = @ + 1]
  /\ summary' = [summary EXCEPT ![s] = received[s]]
  /\ lastOut' = [lastOut EXCEPT ![s] = "summary"]
  /\ lastLine' = [lastLine EXCEPT ![s] = NoLine]
  /\ lineMsg' = [lineMsg EXCEPT ![s] = NoMsg]
  /\ status' = [status EXCEPT ![s] = "OK"]
  /\ cause' = [cause EXCEPT ![s] = c]
  /\ pc' = [pc EXCEPT ![s] = "done"]
  /\ UNCHANGED <<mainVars, kind, received, reads, readsOver, nlines, responses>>

\* the read of the next packet fails
EchoReadFail(s, c) ==
  /\ pc[s] = "read"
  /\ kind[s] = "stream"
  /\ EchoEnd(s, c)

\* a response written before the packet is read
EchoWrite_early(s, ok) ==
  /\ pc[s] \in {"read", "write"}
  /\ kind[s] = "stream"
  /\ IF ok
       THEN /\ responses' = [responses EXCEPT ![s] = Append(@, Response(received[s]))]
            /\ pc' = [pc EXCEPT ![s] = "read"]
            /\ UNCHANGED <<mainVars, kind, received, reads, readsOver, fails,
                           nlines, lastLine, lineMsg, lastOut, nsummary,
                           summary, status, cause>>
       ELSE EchoEnd(s, "write")

\* the response for the packet just counted is written (ok), or its write
\* fails and the loop ends
EchoWrite(s, ok) ==
  /\ pc[s] = "write"
  /\ kind[s] = "stream"
  /\ IF ok
       THEN /\ responses' = [responses EXCEPT ![s] = Append(@, Response(received[s]))]
            /\ pc' = [pc EXCEPT ![s] = "read"]
            /\ UNCHANGED <<mainVars, kind, received, reads, readsOver, fails,
                           nlines, lastLine, lineMsg, lastOut, nsummary,
                           summary, status, cause>>
       ELSE EchoEnd(s, "write")

\* the echo server once it listens on the default address
InitEcho ==
  /\ argv = <<"server">>
  /\ mainpc = "serving"
  /\ address = <<DefaultHost, DefaultPort>>
  /\ listenLog = <<address>>
  /\ errLog = <<>>
  /\ exitStatus = -1
  /\ SessionInit

NextEcho ==
  \/ EchoConnect(1)
  \/ \E p \in Packets : EchoReadOk(1, p)
  \/ \E c \in EndCauses : EchoReadFail(1, c)
  \/ \E ok \in BOOLEAN : EchoWrite(1, ok)

SpecEcho == InitEcho /\ [][NextEcho]_vars

\* C5: in StreamData the Nth response carries received_packets = N,
\* success = true and message = "ok"; it is written after packet N has been
\* read and counted and before packet N+1 is read, so reads and responses
\* alternate and no response lacks a read; a failed write ends the loop.
C5_EchoAlternation ==
  \A s \in Sessions :
    kind[s] = "stream" =>
      /\ \A N \in 1..Len(responses[s]) :
           responses[s][N] =
             [success |-> TRUE, received_packets |-> N, message |-> "ok"]
      /\ Len(responses[s]) <= reads[s]
      /\ pc[s] = "read" => Len(responses[s]) = reads[s]
      /\ pc[s] = "write" =>
           /\ Len(responses[s]) = reads[s] - 1
           /\ received[s] = reads[s]
           /\ ~ ENABLED (\E p \in Packets : EchoReadOk(s, p))
      /\ (pc[s] = "done" /\ cause[s] = "write") =>
           /\ Len(responses[s]) = reads[s] - 1
           /\ fails[s] = 1 /\ nsummary[s] = 1 /\ status[s] = "OK"
      /\ (pc[s] = "done" /\ cause[s] # "write") => Len(responses[s]) = reads[s]

C5_Witness ==
  \E s \in Sessions :
    /\ kind[s] = "stream" /\ pc[s] = "read"
    /\ reads[s] = 5
    /\ Len(responses[s]) = 5
    /\ responses[s][5].received_packets = 5
====
